---- MODULE Spec2Model ----
(***************************************************************************)
(* A model of bingo_generator.py: the command-line driver (main,           *)
(* load_items, generate_pdf), the card sampler (generate_card) and the     *)
(* text-fit routine of the renderer (_draw_cell_text).                     *)
(*                                                                         *)
(* Spec     the run of main: argument checks, loading, the pool pre-check, *)
(*          the per-card loop (sample, place, draw, showPage) and save.    *)
(* SpecFit  one call of _draw_cell_text on a text and a cell size.         *)
(* SpecPair two calls of _draw_cell_text, as _draw_card makes them for two *)
(*          cells of one card: same rectangle, same font, the second text  *)
(*          longer than the first.                                         *)
(***************************************************************************)
EXTENDS Integers, Sequences, FiniteSets, TLC

VARIABLES
    pc,              \* position of the run of main / generate_pdf / generate_card
    args,            \* parsed command line: rows, cols, cards, free_space, free_text
    file,            \* the items file: [exists, lines]
    items,           \* the loaded pool (list of strings)
    exit_status,     \* -1 while running, else the process exit status
    error,           \* "" or the name of what ended the run abnormally
    canvas,          \* the reportlab Canvas: [created, page, pages, saves]
    n,               \* generate_pdf's loop variable (card number)
    chosen,          \* generate_card: the drawn sample
    idx,             \* generate_card: placement index (0-based, as in the code)
    card,            \* generate_card: the rows appended so far
    row,             \* generate_card: the row being filled
    r,               \* generate_card: outer loop variable
    c,               \* generate_card: inner loop variable
    text,            \* _draw_card: the cell texts still to draw; the head is
                     \* the text of the running _draw_cell_text call
    cell,            \* _draw_cell_text: [w, h, is_free]
    fpc,             \* _draw_cell_text: position
    size,            \* _draw_cell_text: the loop variable / chosen font size
    wrapped,         \* _draw_cell_text: the wrapped lines at `size`
    drawn            \* what the calls drew so far: a list of [text, size, lines]

drv_vars == <<pc, args, file, items, exit_status, error, canvas, n,
              chosen, idx, card, row, r, c>>
fit_vars == <<text, cell, fpc, size, wrapped, drawn>>
vars == <<drv_vars, fit_vars>>

-----------------------------------------------------------------------------
(* Bounds of the model *)

MaxRows  == 3
MaxCols  == 3
MaxCards == 2
MaxPool  == 4

-----------------------------------------------------------------------------
(* Values *)

ItemNames == <<"item1", "item2", "item3", "item4", "item5", "item6">>
FreeTexts == {"FREE", "item1"}
ArgInts(max) == (-1) .. max

Max2(a, b) == IF a >= b THEN a ELSE b

\* Pools up to renaming of the strings: position i holds one of the first i
\* names, and a new name is the next unused one. Duplicates are included.
IsPattern(p) ==
    \A i \in DOMAIN p :
        /\ p[i] >= 1
        /\ \/ i = 1 /\ p[i] = 1
           \/ i > 1 /\ \E j \in 1 .. (i - 1) : p[i] <= p[j] + 1

PoolsOfLen(len) ==
    { [i \in 1 .. len |-> ItemNames[p[i]]] :
        p \in { q \in [1 .. len -> 1 .. Max2(len, 1)] : IsPattern(q) } }

Pools == UNION { PoolsOfLen(len) : len \in 0 .. MaxPool }

\* The items file: a comment line, the item lines, a blank line.
FileOf(pool) == <<"#">> \o pool \o <<"">>

-----------------------------------------------------------------------------
(* load_items *)

KeepLine(stripped) == stripped # "" /\ stripped # "#"

LoadItems(lines) == SelectSeq(lines, KeepLine)

-----------------------------------------------------------------------------
(* generate_card / generate_pdf helpers *)

\* rows % 2 == 1 and cols % 2 == 1 and use_free_space
CenterReserved(rows, cols, use_free_space) ==
    use_free_space /\ rows % 2 = 1 /\ cols % 2 = 1

\* a slip: the reserved center is not deducted
CellsNeeded_Full(rows, cols, use_free_space) == rows * cols

\* lines 95-97 and 250-252: cells_needed
CellsNeeded(rows, cols, use_free_space) ==
    IF CenterReserved(rows, cols, use_free_space)
    THEN rows * cols - 1
    ELSE rows * cols

\* a slip: the column is not compared with the center column
IsFreeCell_AnyColumn(rows, cols, use_free_space, rr, cc) ==
    /\ use_free_space
    /\ rows % 2 = 1
    /\ cols % 2 = 1
    /\ rr = rows \div 2

\* a slip: the parity of rows and cols is not tested
IsFreeCell_NoParity(rows, cols, use_free_space, rr, cc) ==
    /\ use_free_space
    /\ rr = rows \div 2
    /\ cc = cols \div 2

\* the condition of the if in the placement loop
IsFreeCell(rows, cols, use_free_space, rr, cc) ==
    /\ use_free_space
    /\ rows % 2 = 1
    /\ cols % 2 = 1
    /\ rr = rows \div 2
    /\ cc = cols \div 2

\* a slip: off by one
InsufficientItems_OffByOne(pool, cells_needed) == Len(pool) < cells_needed - 1

\* len(items) < cells_needed
InsufficientItems(pool, cells_needed) == Len(pool) < cells_needed

IsInjective(f) == \A i, j \in DOMAIN f : i # j => f[i] # f[j]

\* random.sample(items, k): k distinct positions of the pool, in any order
SamplePositions(pool, k) ==
    { f \in [1 .. k -> 1 .. Len(pool)] : IsInjective(f) }

RandomSample(pool, k) ==
    { [i \in 1 .. k |-> pool[f[i]]] : f \in SamplePositions(pool, k) }

\* random.sample raises ValueError for k > len(population) or k < 0
SampleRaises(pool, k) == k > Len(pool) \/ k < 0

BlankPage == [footer |-> 0, ncells |-> 0]

RECURSIVE CountCells(_)
CountCells(grid) ==
    IF grid = <<>> THEN 0 ELSE Len(Head(grid)) + CountCells(Tail(grid))

\* a slip: range(1, num_cards)
HasNextCard_Short(m, num_cards) == m + 1 < num_cards

\* range(1, num_cards + 1) has a next value after m
HasNextCard(m, num_cards) == m + 1 <= num_cards

-----------------------------------------------------------------------------
(* Initial states *)

FitIdle ==
    /\ text = <<>>
    /\ cell = [w |-> 0, h |-> 0, is_free |-> FALSE]
    /\ fpc = "idle"
    /\ size = 0
    /\ wrapped = <<>>
    /\ drawn = <<>>

DrvIdle ==
    /\ pc = "idle"
    /\ args = [rows |-> 0, cols |-> 0, cards |-> 0,
               free_space |-> FALSE, free_text |-> "FREE"]
    /\ file = [exists |-> FALSE, lines |-> <<>>]
    /\ items = <<>>
    /\ exit_status = -1
    /\ error = ""
    /\ canvas = [created |-> FALSE, page |-> BlankPage, pages |-> <<>>, saves |-> 0]
    /\ n = 0
    /\ chosen = <<>> /\ idx = 0 /\ card = <<>> /\ row = <<>> /\ r = 0 /\ c = 0

Init ==
    /\ pc = "main"
    /\ \E rows \in ArgInts(MaxRows), cols \in ArgInts(MaxCols),
          cards \in ArgInts(MaxCards), fs \in BOOLEAN, ft \in FreeTexts :
          args = [rows |-> rows, cols |-> cols, cards |-> cards,
                  free_space |-> fs, free_text |-> ft]
    /\ \/ file = [exists |-> FALSE, lines |-> <<>>]
       \/ \E pool \in Pools : file = [exists |-> TRUE, lines |-> FileOf(pool)]
    /\ items = <<>>
    /\ exit_status = -1
    /\ error = ""
    /\ canvas = [created |-> FALSE, page |-> BlankPage, pages |-> <<>>, saves |-> 0]
    /\ n = 0
    /\ chosen = <<>> /\ idx = 0 /\ card = <<>> /\ row = <<>> /\ r = 0 /\ c = 0
    /\ FitIdle

-----------------------------------------------------------------------------
(* main *)

card_vars == <<chosen, idx, card, row, r, c>>

\* parser.error(...): report and exit with status 2
Exit(status, why) ==
    /\ pc' = "exit"
    /\ exit_status' = status
    /\ error' = why

\* line 300: args.rows < 1 or args.cols < 1
BadGrid(rows, cols) == rows < 1 \/ cols < 1

\* a slip: args.cards < 0
BadCards_Negative(cards) == cards < 0

\* line 302: args.cards < 1
BadCards(cards) == cards < 1

\* lines 300-303: the argument checks
CheckArgs ==
    /\ pc = "main"
    /\ IF BadGrid(args.rows, args.cols)
       THEN Exit(2, "rows_cols")
       ELSE IF BadCards(args.cards)
            THEN Exit(2, "cards")
            ELSE pc' = "load_items" /\ UNCHANGED <<exit_status, error>>
    /\ UNCHANGED <<args, file, items, canvas, n, card_vars, fit_vars>>

\* line 305: load_items
Load ==
    /\ pc = "load_items"
    /\ IF ~file.exists
       THEN Exit(1, "file_not_found") /\ UNCHANGED items
       ELSE /\ items' = LoadItems(file.lines)
            /\ pc' = "generate_pdf"
            /\ UNCHANGED <<exit_status, error>>
    /\ UNCHANGED <<args, file, canvas, n, card_vars, fit_vars>>

-----------------------------------------------------------------------------
(* generate_pdf *)

\* lines 250-262: the pool pre-check, then Canvas(output)
PreCheck ==
    /\ pc = "generate_pdf"
    /\ IF InsufficientItems(items, CellsNeeded(args.rows, args.cols, args.free_space))
       THEN Exit(1, "insufficient_items") /\ UNCHANGED <<canvas, n>>
       ELSE /\ canvas' = [canvas EXCEPT !.created = TRUE]
            /\ n' = 0
            /\ pc' = "for_n"
            /\ UNCHANGED <<exit_status, error>>
    /\ UNCHANGED <<args, file, items, card_vars, fit_vars>>

\* line 263: the for statement takes its next value, or the loop ends
NextCard ==
    /\ pc = "for_n"
    /\ IF HasNextCard(n, args.cards)
       THEN n' = n + 1 /\ pc' = "generate_card"
       ELSE n' = n /\ pc' = "save"
    /\ UNCHANGED <<args, file, items, exit_status, error, canvas, card_vars, fit_vars>>

\* lines 95-102: cells_needed, random.sample, idx = 0, card = []
Sample ==
    /\ pc = "generate_card"
    /\ LET k == CellsNeeded(args.rows, args.cols, args.free_space) IN
       IF SampleRaises(items, k)
       THEN Exit(1, "ValueError") /\ UNCHANGED card_vars
       ELSE /\ chosen' \in RandomSample(items, k)
            /\ idx' = 0
            /\ card' = <<>>
            /\ row' = <<>>
            /\ r' = 0
            /\ c' = 0
            /\ pc' = "place"
            /\ UNCHANGED <<exit_status, error>>
    /\ UNCHANGED <<args, file, items, canvas, n, fit_vars>>

\* lines 106-117: one iteration of the inner loop
PlaceCell ==
    /\ pc = "place"
    /\ r < args.rows
    /\ c < args.cols
    /\ IF IsFreeCell(args.rows, args.cols, args.free_space, r, c)
       THEN /\ row' = Append(row, args.free_text)
            /\ c' = c + 1
            /\ UNCHANGED <<idx, pc, exit_status, error>>
       ELSE IF idx >= Len(chosen)
            THEN Exit(1, "IndexError") /\ UNCHANGED <<row, c, idx>>
            ELSE /\ row' = Append(row, chosen[idx + 1])
                 /\ idx' = idx + 1
                 /\ c' = c + 1
                 /\ UNCHANGED <<pc, exit_status, error>>
    /\ UNCHANGED <<args, file, items, canvas, n, chosen, card, r, fit_vars>>

\* line 118: the inner loop is over, card.append(row); line 105 for the next row
EndRow ==
    /\ pc = "place"
    /\ r < args.rows
    /\ c >= args.cols
    /\ card' = Append(card, row)
    /\ row' = <<>>
    /\ r' = r + 1
    /\ c' = 0
    /\ UNCHANGED <<pc, args, file, items, exit_status, error, canvas, n,
                   chosen, idx, fit_vars>>

\* line 119: return card
ReturnCard ==
    /\ pc = "place"
    /\ r >= args.rows
    /\ pc' = "draw_card"
    /\ UNCHANGED <<args, file, items, exit_status, error, canvas, n,
                   card_vars, fit_vars>>

\* line 265: _draw_card draws the footer "Card #n" and every cell on the page
DrawCard ==
    /\ pc = "draw_card"
    /\ canvas' = [canvas EXCEPT !.page = [footer |-> n, ncells |-> CountCells(card)]]
    /\ pc' = "showPage"
    /\ UNCHANGED <<args, file, items, exit_status, error, n, card_vars, fit_vars>>

\* a drawing call raises (an exception of the canvas, an interrupt): nothing
\* in generate_pdf catches it, the exception leaves generate_pdf and main
DrawCardRaises ==
    /\ pc = "draw_card"
    /\ Exit(1, "render_exception")
    /\ UNCHANGED <<args, file, items, canvas, n, card_vars, fit_vars>>

\* line 266: c.showPage()
ShowPage ==
    /\ pc = "showPage"
    /\ canvas' = [canvas EXCEPT !.pages = Append(@, canvas.page),
                                !.page = BlankPage]
    /\ pc' = "for_n"
    /\ UNCHANGED <<args, file, items, exit_status, error, n, card_vars, fit_vars>>

\* lines 267-268: c.save() and the confirmation; main returns
Save ==
    /\ pc = "save"
    /\ canvas' = [canvas EXCEPT !.saves = @ + 1]
    /\ pc' = "exit"
    /\ exit_status' = 0
    /\ UNCHANGED <<args, file, items, error, n, card_vars, fit_vars>>

Next ==
    \/ CheckArgs
    \/ Load
    \/ PreCheck
    \/ NextCard
    \/ Sample
    \/ PlaceCell
    \/ EndRow
    \/ ReturnCard
    \/ DrawCard
    \/ DrawCardRaises
    \/ ShowPage
    \/ Save

Spec == Init /\ [][Next]_vars

-----------------------------------------------------------------------------
(* textwrap.wrap, as _draw_cell_text uses it: default options, no hyphens or
   tabs in the texts. A text and a line are sequences of characters. *)

IsSpace(ch) == ch = " "

\* chunk.strip() == ''
IsBlank(chunk) == \A i \in DOMAIN chunk : IsSpace(chunk[i])

\* the length of the first run of spaces or of non-spaces of a non-empty text
RunLen(t) ==
    CHOOSE k \in 1 .. Len(t) :
        /\ \A i \in 1 .. k : IsSpace(t[i]) = IsSpace(t[1])
        /\ k = Len(t) \/ IsSpace(t[k + 1]) # IsSpace(t[1])

\* TextWrapper._split: words and runs of whitespace
RECURSIVE SplitChunks(_)
SplitChunks(t) ==
    IF t = <<>> THEN <<>>
    ELSE <<SubSeq(t, 1, RunLen(t))>> \o SplitChunks(SubSeq(t, RunLen(t) + 1, Len(t)))

RECURSIVE Concat(_)
Concat(chunks) == IF chunks = <<>> THEN <<>> ELSE Head(chunks) \o Concat(Tail(chunks))

\* the inner while of _wrap_chunks: how many chunks go on the current line
RECURSIVE GreedyCount(_, _, _)
GreedyCount(chunks, cur_len, width) ==
    IF chunks # <<>> /\ cur_len + Len(Head(chunks)) <= width
    THEN 1 + GreedyCount(Tail(chunks), cur_len + Len(Head(chunks)), width)
    ELSE 0

\* TextWrapper._wrap_chunks: one pass of the outer while per call
RECURSIVE WrapChunks(_, _, _)
WrapChunks(chunks, width, lines) ==
    IF chunks = <<>> THEN lines
    ELSE
    LET \* drop whitespace at the start of a line that is not the first
        chunks1 == IF IsBlank(Head(chunks)) /\ lines # <<>> THEN Tail(chunks) ELSE chunks
        k == GreedyCount(chunks1, 0, width)
        taken == SubSeq(chunks1, 1, k)
        rest == SubSeq(chunks1, k + 1, Len(chunks1))
        \* _handle_long_word: break a chunk longer than the width
        long == rest # <<>> /\ Len(Head(rest)) > width
        space_left == width - Len(Concat(taken))
        cur_line == IF long THEN Append(taken, SubSeq(Head(rest), 1, space_left))
                    ELSE taken
        rest1 == IF long
                 THEN <<SubSeq(Head(rest), space_left + 1, Len(Head(rest)))>> \o Tail(rest)
                 ELSE rest
        \* drop whitespace at the end of the line
        cur_line1 == IF cur_line # <<>> /\ IsBlank(cur_line[Len(cur_line)])
                     THEN SubSeq(cur_line, 1, Len(cur_line) - 1)
                     ELSE cur_line
    IN WrapChunks(rest1, width,
                  IF cur_line1 # <<>> THEN Append(lines, Concat(cur_line1)) ELSE lines)

\* textwrap.wrap raises ValueError for width <= 0
WrapRaises(width) == width <= 0

TextWrap(t, width) == WrapChunks(SplitChunks(t), width, <<>>)

-----------------------------------------------------------------------------
(* _draw_cell_text *)

CELL_FONT_SIZE == 11
MinSizeStop == 5
FallbackSize == 6
padding == 4

\* int(): truncation toward zero
TruncDiv(a, b) == IF a >= 0 THEN a \div b ELSE -((-a) \div b)

\* max(int(max_w / (size * 0.5)), 8)
WrapWidth(max_w, sz) == Max2(TruncDiv(2 * max_w, sz), 8)

FontName(is_free) == IF is_free THEN "Helvetica-Bold" ELSE "Helvetica"

\* the width of a character in 1/1000 of the font size (the fonts' metrics)
CharWidth(font, ch) ==
    CASE ch = "W" -> 944
      [] ch = "i" -> IF font = "Helvetica-Bold" THEN 278 ELSE 222
      [] OTHER -> 278

RECURSIVE SumWidths(_, _)
SumWidths(font, line) ==
    IF line = <<>> THEN 0 ELSE CharWidth(font, Head(line)) + SumWidths(font, Tail(line))

\* canvas.stringWidth(line, font_name, size), in 1/1000 point
StringWidth(line, font, sz) == SumWidths(font, line) * sz

\* a slip: the widths of the lines are not checked
TextFits_HeightOnly(lines, sz, font, max_w, max_h) ==
    Len(lines) * sz * 12 <= max_h * 10

\* a slip: the height comparison is reversed
TextFits_Reversed(lines, sz, font, max_w, max_h) ==
    /\ Len(lines) * sz * 12 >= max_h * 10
    /\ \A i \in 1 .. Len(lines) : ~(StringWidth(lines[i], font, sz) > max_w * 1000)

\* lines 211-220: fits = total_text_h <= max_h, and no line wider than max_w
\* (len(wrapped) * size * 1.2 against max_h, in tenths of a point)
TextFits(lines, sz, font, max_w, max_h) ==
    /\ Len(lines) * sz * 12 <= max_h * 10
    /\ \A i \in 1 .. Len(lines) : ~(StringWidth(lines[i], font, sz) > max_w * 1000)

\* range(CELL_FONT_SIZE, 5, -1) has a value after sz
HasSmallerSize(sz) == sz - 1 > MinSizeStop

MaxW == cell.w - 2 * padding
MaxH == cell.h - 2 * padding

\* lines 208-222: one iteration of the for loop
TrySize ==
    /\ fpc = "for_size"
    /\ LET width == WrapWidth(MaxW, size) IN
       IF WrapRaises(width)
       THEN fpc' = "raised" /\ UNCHANGED <<size, wrapped>>
       ELSE LET lines == TextWrap(Head(text), width) IN
            /\ wrapped' = lines
            /\ IF TextFits(lines, size, FontName(cell.is_free), MaxW, MaxH)
               THEN fpc' = "draw" /\ size' = size
               ELSE IF HasSmallerSize(size)
                    THEN fpc' = "for_size" /\ size' = size - 1
                    ELSE fpc' = "else" /\ size' = size
    /\ UNCHANGED <<text, cell, drawn, drv_vars>>

\* lines 223-227: the else clause of the for loop
Fallback ==
    /\ fpc = "else"
    /\ size' = FallbackSize
    /\ LET width == WrapWidth(MaxW, FallbackSize) IN
       IF WrapRaises(width)
       THEN fpc' = "raised" /\ UNCHANGED wrapped
       ELSE fpc' = "draw" /\ wrapped' = TextWrap(Head(text), width)
    /\ UNCHANGED <<text, cell, drawn, drv_vars>>

\* lines 229-236: the lines are drawn at the chosen size; _draw_card goes on
\* to its next cell, of the same width and height
DrawText ==
    /\ fpc = "draw"
    /\ drawn' = Append(drawn, [text |-> Head(text), size |-> size, lines |-> wrapped])
    /\ text' = Tail(text)
    /\ IF Tail(text) = <<>>
       THEN fpc' = "done" /\ UNCHANGED <<size, wrapped>>
       ELSE fpc' = "for_size" /\ size' = CELL_FONT_SIZE /\ wrapped' = <<>>
    /\ UNCHANGED <<cell, drv_vars>>

NextFit ==
    \/ TrySize
    \/ Fallback
    \/ DrawText

(* the inputs of SpecFit and SpecPair *)

MaxWords == 2
MaxPairWords == 2

WordLens == {1, 4, 9}
Words == ({"W", "i"} \X WordLens) \cup {<<" ", 1>>}
PairWords == {"W", "i"} \X {1, 4}

WordText(w) == [i \in 1 .. w[2] |-> w[1]]

\* the words joined by single spaces
RECURSIVE JoinWords(_)
JoinWords(ws) ==
    IF ws = <<>> THEN <<>>
    ELSE IF Len(ws) = 1 THEN WordText(ws[1])
    ELSE WordText(ws[1]) \o <<" ">> \o JoinWords(Tail(ws))

TextsOf(words, most) ==
    { JoinWords(ws) : ws \in UNION { [1 .. m -> words] : m \in 0 .. most } }

CellWidths == {18, 28, 52, 68, 101}
CellHeights == {4, 22, 35, 60}
PairWidths == {18, 52, 68}
PairHeights == {22, 35}

InitFit ==
    /\ DrvIdle
    /\ \E t \in TextsOf(Words, MaxWords) : text = <<t>>
    /\ \E w \in CellWidths, h \in CellHeights, f \in BOOLEAN :
          cell = [w |-> w, h |-> h, is_free |-> f]
    /\ fpc = "for_size"
    /\ size = CELL_FONT_SIZE
    /\ wrapped = <<>>
    /\ drawn = <<>>

SpecFit == InitFit /\ [][NextFit]_vars

\* two cells of one card: a text and a longer one, same rectangle, same font
InitPair ==
    /\ DrvIdle
    /\ \E s \in TextsOf(PairWords, MaxPairWords), t \in TextsOf(PairWords, MaxPairWords) :
          /\ Len(s) < Len(t)
          /\ text = <<s, t>>
    /\ \E w \in PairWidths, h \in PairHeights, f \in BOOLEAN :
          cell = [w |-> w, h |-> h, is_free |-> f]
    /\ fpc = "for_size"
    /\ size = CELL_FONT_SIZE
    /\ wrapped = <<>>
    /\ drawn = <<>>

SpecPair == InitPair /\ [][NextFit]_vars

-----------------------------------------------------------------------------
(* Properties of the run: Spec *)

Range(f) == { f[i] : i \in DOMAIN f }

Need == CellsNeeded(args.rows, args.cols, args.free_space)

\* generate_card has returned its card to generate_pdf
CardReturned == pc = "draw_card"

\* the free-space request applies: flag on, rows odd, cols odd
OddOddFree == args.free_space /\ args.rows % 2 = 1 /\ args.cols % 2 = 1

\* 1-based coordinates of the center cell (rows // 2, cols // 2)
CenterRow == args.rows \div 2 + 1
CenterCol == args.cols \div 2 + 1

\* the coordinates of a returned card that are not the reserved center
ItemCells ==
    { p \in (1 .. Len(card)) \X (1 .. args.cols) :
        /\ p[2] <= Len(card[p[1]])
        /\ ~(OddOddFree /\ p[1] = CenterRow /\ p[2] = CenterCol) }

RECURSIVE Flatten(_)
Flatten(grid) == IF grid = <<>> THEN <<>> ELSE Head(grid) \o Flatten(Tail(grid))

\* seq without its k-th element
DropAt(seq, k) == SubSeq(seq, 1, k - 1) \o SubSeq(seq, k + 1, Len(seq))

\* the cells of the returned card in row-major order, the reserved center skipped
RowMajorItems ==
    IF OddOddFree
    THEN DropAt(Flatten(card), (CenterRow - 1) * args.cols + CenterCol)
    ELSE Flatten(card)

\* C1: a returned card has exactly rows rows of exactly cols entries; exactly
\* cells_needed of its cells (all but the reserved center) hold pool items, and
\* a reserved center holds the free label.
C1_CardShape ==
    CardReturned =>
        /\ Len(card) = args.rows
        /\ \A i \in 1 .. Len(card) : Len(card[i]) = args.cols
        /\ CountCells(card) = args.rows * args.cols
        /\ Cardinality(ItemCells) = args.rows * args.cols - (IF OddOddFree THEN 1 ELSE 0)
        /\ \A p \in ItemCells : card[p[1]][p[2]] \in Range(items)
        /\ OddOddFree => card[CenterRow][CenterCol] = args.free_text

C1_Witness ==
    /\ CardReturned
    /\ OddOddFree
    /\ args.rows = 3
    /\ args.free_text = "FREE"
    /\ Len(items) > Need
    /\ card[1][1] # card[3][1]

\* C2 (as claimed): in a returned card no two cells other than the free cell
\* hold the same string, whatever pool the run accepted.
C2_NoRepeatedItem ==
    CardReturned =>
        \A p, q \in ItemCells : p # q => card[p[1]][p[2]] # card[q[1]][q[2]]

\* C3: a cell is assigned the free label instead of a sampled item exactly when
\* the flag is on and rows and cols are both odd; otherwise every cell is a
\* sampled item and the run goes on without an error.
C3_FreeIffOddOdd ==
    CardReturned =>
        /\ error = ""
        /\ (args.rows * args.cols - idx > 0) <=> OddOddFree
        /\ OddOddFree =>
              /\ args.rows * args.cols - idx = 1
              /\ card[CenterRow][CenterCol] = args.free_text
        /\ ~OddOddFree =>
              /\ idx = args.rows * args.cols
              /\ Flatten(card) = chosen

C3_Witness ==
    /\ CardReturned
    /\ args.free_space
    /\ args.rows = 1
    /\ args.cols = 2
    /\ idx = 2

\* C4: the pool is checked before the canvas exists: a pool smaller than
\* cells_needed ends the run with an error status, no canvas, no page, no save
\* and no sample; a pool of at least cells_needed (equality included) passes,
\* and no later random.sample fails.
PastPreCheck ==
    /\ pc \notin {"main", "load_items", "generate_pdf"}
    /\ error \notin {"rows_cols", "cards", "file_not_found"}

C4_PoolCheckedFirst ==
    /\ error = "insufficient_items" =>
          /\ pc = "exit"
          /\ exit_status = 1
          /\ ~canvas.created
          /\ canvas.pages = <<>>
          /\ canvas.page = BlankPage
          /\ canvas.saves = 0
          /\ n = 0
          /\ chosen = <<>>
    /\ PastPreCheck => (Len(items) < Need <=> error = "insufficient_items")
    /\ PastPreCheck /\ Len(items) >= Need => canvas.created
    /\ error \notin {"ValueError", "IndexError"}

C4_Witness ==
    /\ exit_status = 0
    /\ Len(items) = Need
    /\ Need = 2
    /\ args.free_space
    /\ Len(canvas.pages) = 2

\* C5: a successful run of N cards yields N pages in order, page n with footer
\* "Card #n"; card n is sampled, then drawn, then its page advanced, before card
\* n+1 starts; the document is saved once, after the N-th page advance.
C5_PagesInOrder ==
    /\ \A i \in 1 .. Len(canvas.pages) :
          /\ canvas.pages[i].footer = i
          /\ canvas.pages[i].ncells = args.rows * args.cols
    /\ pc = "for_n" => Len(canvas.pages) = n /\ canvas.page = BlankPage
    /\ pc \in {"generate_card", "place", "draw_card"} =>
          /\ n \in 1 .. args.cards
          /\ Len(canvas.pages) = n - 1
          /\ canvas.page = BlankPage
    /\ pc = "showPage" =>
          /\ Len(canvas.pages) = n - 1
          /\ canvas.page = [footer |-> n, ncells |-> args.rows * args.cols]
    /\ pc = "save" => Len(canvas.pages) = args.cards /\ n = args.cards
    /\ canvas.saves <= 1
    /\ pc # "exit" => canvas.saves = 0
    /\ canvas.saves = 1 => Len(canvas.pages) = args.cards /\ exit_status = 0
    /\ exit_status = 0 =>
          /\ args.cards >= 1
          /\ Len(canvas.pages) = args.cards
          /\ canvas.saves = 1

C5_Witness ==
    /\ exit_status = 0
    /\ canvas.saves = 1
    /\ Len(canvas.pages) = 2
    /\ canvas.pages[2].footer = 2

\* C8 (as claimed): every path of generate_pdf that created the canvas saves
\* (flushes and closes) it exactly once, a failing card included.
C8_ClosedOnEveryPath ==
    pc = "exit" /\ canvas.created => canvas.saves = 1

\* C9: with rows < 1, cols < 1 or cards < 1 the run ends as a configuration
\* error before load_items: nothing is loaded, sampled, drawn, created or saved.
BadConfig == args.rows < 1 \/ args.cols < 1 \/ args.cards < 1

C9_BadConfigRejected ==
    BadConfig =>
        /\ pc \in {"main", "exit"}
        /\ pc = "exit" => exit_status = 2 /\ error \in {"rows_cols", "cards"}
        /\ items = <<>>
        /\ ~canvas.created
        /\ canvas.pages = <<>>
        /\ canvas.page = BlankPage
        /\ canvas.saves = 0
        /\ chosen = <<>>
        /\ card = <<>>

C9_Witness ==
    /\ pc = "exit"
    /\ args.rows >= 1
    /\ args.cols >= 1
    /\ args.cards = 0
    /\ file.exists
    /\ Len(file.lines) > 2

\* C10: the sample is placed in row-major order: reading the card row by row,
\* the reserved center skipped, gives chosen[0], chosen[1], ...; the index read
\* never exceeds cells_needed - 1 and is cells_needed at the end.
PlacedSoFar ==
    LET cells == Flatten(card) \o row
        k == (CenterRow - 1) * args.cols + CenterCol
    IN IF OddOddFree /\ Len(cells) >= k THEN DropAt(cells, k) ELSE cells

C10_RowMajor ==
    /\ pc = "place" =>
          /\ PlacedSoFar = SubSeq(chosen, 1, idx)
          /\ Len(chosen) = Need
          /\ (r < args.rows /\ c < args.cols
                /\ ~IsFreeCell(args.rows, args.cols, args.free_space, r, c))
             => idx <= Need - 1
    /\ CardReturned =>
          /\ RowMajorItems = chosen
          /\ idx = Need
          /\ idx = Len(chosen)
    /\ error # "IndexError"

C10_Witness ==
    /\ CardReturned
    /\ OddOddFree
    /\ args.cols = 3
    /\ idx = 2
    /\ card[1][1] = chosen[1]
    /\ card[1][3] = chosen[2]
    /\ chosen[1] # chosen[2]

-----------------------------------------------------------------------------
(* Properties of _draw_cell_text: SpecFit, SpecPair *)

CandidateSizes == (MinSizeStop + 1) .. CELL_FONT_SIZE

SetMax(S) == CHOOSE x \in S : \A y \in S : y <= x

\* the text t, wrapped for size sz, in the cell of the state
LinesAt(t, sz) == TextWrap(t, WrapWidth(MaxW, sz))

\* the measured width of the widest line (0 without lines)
WidestLine(lines, sz) ==
    SetMax({0} \cup { StringWidth(lines[i], FontName(cell.is_free), sz) :
                        i \in 1 .. Len(lines) })

\* both conditions of the claim at candidate size sz:
\* line_count * size * 1.2 <= available height, every line <= available width
BothHold(t, sz) ==
    /\ Len(LinesAt(t, sz)) * sz * 12 <= MaxH * 10
    /\ WidestLine(LinesAt(t, sz), sz) <= MaxW * 1000

\* the size and lines the claim prescribes for text t
IsLargestFitting(t, sz, lines) ==
    LET fitting == { k \in CandidateSizes : BothHold(t, k) } IN
    /\ sz \in CandidateSizes
    /\ lines = LinesAt(t, sz)
    /\ IF fitting # {} THEN sz = SetMax(fitting) ELSE sz = FallbackSize

\* C6: _draw_cell_text never raises and always ends with a size in 11..6 and
\* the lines wrapped for it: the largest candidate at which height and width
\* both fit, or 6 with the text wrapped for 6 when none fits.
C6_LargestFittingSize ==
    /\ fpc # "raised"
    /\ fpc \in {"for_size", "else", "draw", "done"}
    /\ fpc # "done" => text # <<>>
    /\ fpc = "for_size" => size \in CandidateSizes
    /\ fpc = "draw" => IsLargestFitting(Head(text), size, wrapped)
    /\ \A i \in 1 .. Len(drawn) :
          IsLargestFitting(drawn[i].text, drawn[i].size, drawn[i].lines)
    /\ fpc = "done" => text = <<>> /\ Len(drawn) = 1

\* a text that needs wrapping and fits only below the largest size
C6_Witness ==
    /\ fpc = "done"
    /\ Len(drawn[1].lines) >= 2
    /\ drawn[1].size \in 7 .. 10
    /\ BothHold(drawn[1].text, drawn[1].size)

\* the fallback: a long unbreakable token that fits at no size
C6_WitnessFallback ==
    /\ fpc = "done"
    /\ drawn[1].size = FallbackSize
    /\ ~BothHold(drawn[1].text, FallbackSize)
    /\ \A i \in 1 .. Len(drawn[1].text) : drawn[1].text[i] = "W"

\* C7 (as claimed): of two texts drawn into the same cell in the same font,
\* the longer one never gets a strictly larger size.
C7_LongerNeverLarger ==
    \A i, j \in 1 .. Len(drawn) :
        i # j /\ Len(drawn[i].text) < Len(drawn[j].text) => drawn[j].size <= drawn[i].size

\* t needs at least the room of s: at every candidate size it wraps into at
\* least as many lines and its widest line measures at least as wide
NeedsAtLeast(t, s) ==
    \A sz \in CandidateSizes :
        /\ Len(LinesAt(t, sz)) >= Len(LinesAt(s, sz))
        /\ WidestLine(LinesAt(t, sz), sz) >= WidestLine(LinesAt(s, sz), sz)

\* C7 (amended): of two texts drawn into the same cell in the same font, one
\* that at every candidate size wraps into at least as many lines, with a
\* widest line at least as wide, never gets a strictly larger size.
C7_MoreRoomNeverLarger ==
    \A i, j \in 1 .. Len(drawn) :
        i # j /\ NeedsAtLeast(drawn[j].text, drawn[i].text) => drawn[j].size <= drawn[i].size

C7_Witness ==
    /\ fpc = "done"
    /\ Len(drawn) = 2
    /\ 0 < Len(drawn[1].text)
    /\ Len(drawn[1].text) < Len(drawn[2].text)
    /\ NeedsAtLeast(drawn[2].text, drawn[1].text)
    /\ drawn[2].size < drawn[1].size
    /\ Len(drawn[2].lines) >= 2

====
